---- MODULE Spec2Model ----
(***************************************************************************)
(* The CSV batch-prediction endpoint POST /api/predict/batch of the        *)
(* Express API, in its two variants:                                       *)
(*   "server" : src/server/routes.ts          (per-row storage.predict)    *)
(*   "copy"   : src/server - Copy/routes.ts   (storage.batchPredict)       *)
(* with the storage adapter of src/unnamed/part_000 (PythonStorage).       *)
(*                                                                         *)
(* One request is followed from the moment multer hands it to the route    *)
(* handler until the response is sent, and beyond it for as long as HTTP   *)
(* calls to the prediction service are still in flight.                    *)
(***************************************************************************)
EXTENDS Integers, Sequences, FiniteSets, TLC

---------------------------------------------------------------------------
(* Bounds of the model.  BATCH_SIZE, COPY_BATCH_SIZE and RESULT_CAP are    *)
(* the program's 1000 (routes.ts:67), 500 (Copy/routes.ts:82) and 5000     *)
(* (routes.ts:150) scaled down so that full batches, several batches and   *)
(* truncation all happen within MaxRows rows.                              *)
MaxRows == 3

MaxBom == 2

BATCH_SIZE == 2

COPY_BATCH_SIZE == 2

RESULT_CAP == 2

---------------------------------------------------------------------------
(* Values *)

Undefined == "undefined"

cancerDatasets == {"breast", "gastric", "lung"}

\* dataset form fields a request is drawn with: the valid ones, an unknown
\* one, and no field at all (req.body.dataset is undefined)
DatasetInputs == cancerDatasets \cup {"colon", Undefined}

targetColumns == {"classes", "Sample_Characteristics", "target", "label", "diagnosis"}

\* header lines of the uploaded CSV files
Headers == { <<"label", "f1">>, <<"f1", "f2">> }

\* cell texts of the uploaded CSV files
Cells == {"7", "x"}

NaN == [nan |-> TRUE, val |-> 0]

Num(n) == [nan |-> FALSE, val |-> n]

\* parseFloat: the longest numeric prefix of the text, NaN when there is none
parseFloat(s) ==
    CASE s = "7"   -> Num(7)
      [] s = "7x"  -> Num(7)
      [] s = "-2"  -> Num(0 - 2)
      [] s = "0"   -> Num(0)
      [] OTHER     -> NaN

isNaN(v) == v.nan

Min(a, b) == IF a <= b THEN a ELSE b

\* all sequences over S of length 0..n
RECURSIVE SeqsUpTo(_, _)
SeqsUpTo(S, n) ==
    IF n = 0 THEN { <<>> }
    ELSE LET shorter == SeqsUpTo(S, n - 1)
         IN  shorter \cup { Append(s, x) : s \in { t \in shorter : Len(t) = n - 1 }, x \in S }

---------------------------------------------------------------------------
(* The uploaded file.  Its text is `bom` U+FEFF characters followed by the *)
(* header line and the data lines.                                         *)

NoFile == [present |-> FALSE, bom |-> 0, header |-> <<>>, rows |-> <<>>]

CsvFile(b, h, rs) == [present |-> TRUE, bom |-> b, header |-> h, rows |-> rs]

Files ==
    UNION { { CsvFile(b, h, rs) :
                b \in 0..MaxBom,
                rs \in SeqsUpTo([1..Len(h) -> Cells], MaxRows) } : h \in Headers }

---------------------------------------------------------------------------
(* Pure steps of the handlers *)

\* routes.ts:51 / Copy:66   if (!req.file)
FileMissing(r) == ~r.file.present

\* every dataset field passes
ValidDataset_AcceptsAny(d) == TRUE

\* the dataset check lets a missing field through
ValidDataset_AcceptsMissing(d) == d \in cancerDatasets \cup {Undefined}

\* routes.ts:56 / Copy:71   ["breast","gastric","lung"].includes(dataset)
ValidDataset(d) == d \in cancerDatasets

\* the missing file is reported as a server error
NoFileResponse_ServerError == [status |-> 500, message |-> "No file uploaded"]

\* routes.ts:52 / Copy:67
NoFileResponse == [status |-> 400, message |-> "No file uploaded"]

\* routes.ts:57 / Copy:72
InvalidDatasetResponse == [status |-> 400, message |-> "Invalid dataset"]

\* the byte-order mark is left in place
StripBom_Never(raw) == raw

\* routes.ts:63 / Copy:78   raw.charCodeAt(0) === 0xfeff ? raw.slice(1) : raw
StripBom(raw) == IF raw.bom > 0 THEN [raw EXCEPT !.bom = @ - 1] ELSE raw

\* csv(): the first line gives the keys, every further line one row object
\* with the entries in header order.  The parser does not look for a
\* byte-order mark: what is left of it is part of the first header name.
ColumnKey(text, j) ==
    [bom |-> IF j = 1 THEN text.bom ELSE 0, name |-> text.header[j]]

ParseCsv(text) ==
    [i \in 1..Len(text.rows) |->
        [j \in 1..Len(text.header) |->
            [key |-> ColumnKey(text, j), value |-> text.rows[i][j]]]]

\* no column is taken for a target column
IsTargetColumn_Never(key) == FALSE

\* routes.ts:78   the key is one of the target column names
IsTargetColumn(key) == key.bom = 0 /\ key.name \in targetColumns

\* routes.ts:75-84   the numeric, non-target entries of the row
ServerFeatureEntry(e) == [key |-> e.key, value |-> parseFloat(e.value).val]

ServerKeeps(e) == ~IsTargetColumn(e.key) /\ ~isNaN(parseFloat(e.value))

ServerFeatures(row) ==
    LET kept == SelectSeq(row, ServerKeeps)
    IN  [i \in 1..Len(kept) |-> ServerFeatureEntry(kept[i])]

\* rows without features are batched like the others
HasFeatures_Always(features) == TRUE

\* routes.ts:86   Object.keys(features).length > 0
HasFeatures(features) == Len(features) > 0

\* Copy:90-96   the numeric entries of the row
CopyKeeps(e) == ~isNaN(parseFloat(e.value))

CopyNumericRow(row) ==
    LET kept == SelectSeq(row, CopyKeeps)
    IN  [i \in 1..Len(kept) |-> ServerFeatureEntry(kept[i])]

\* part_000:43-49   predict is an async function: it returns a promise and
\* reports every failure by rejecting it, never by throwing to its caller
PredictThrows == FALSE

\* part_000:27   text || `Request failed: ${res.status}`
UpstreamMessage == "upstream error"

\* routes.ts:94-111   the outcome pushed for one row of the batch.  The
\* promise returned by storage.predict is not awaited: its predictions and
\* consensus properties are undefined.
ServerOutcome(item, globalIndex) ==
    IF PredictThrows
    THEN [row |-> globalIndex, src |-> item.src, kind |-> "error",
          error |-> UpstreamMessage, predictions |-> Undefined,
          consensus |-> Undefined, features |-> item.features]
    ELSE [row |-> globalIndex, src |-> item.src, kind |-> "success",
          error |-> Undefined, predictions |-> Undefined,
          consensus |-> Undefined, features |-> <<>>]

\* routes.ts:92-112 and 121-141   currentBatch.forEach(...)
ServerFlushEntries(batch, rowIdx) ==
    [i \in 1..Len(batch) |-> ServerOutcome(batch[i], rowIdx - Len(batch) + (i - 1))]

\* routes.ts:95 and 124   one HTTP call (part_000:44) per row of the batch
ServerFlushCalls(batch) ==
    [i \in 1..Len(batch) |->
        [handler |-> "row", body |-> <<batch[i].src>>, features |-> batch[i].features,
         status |-> "pending"]]

\* the results are sent without the slice
ServerResponse_NoSlice(dataset, res) ==
    [status |-> 200, dataset |-> dataset, results |-> res,
     total_processed |-> Len(res)]

\* total_processed counts the entries that are sent
ServerResponse_CountsSlice(dataset, res) ==
    [status |-> 200, dataset |-> dataset,
     results |-> SubSeq(res, 1, Min(Len(res), RESULT_CAP)),
     total_processed |-> Min(Len(res), RESULT_CAP)]

\* routes.ts:148-152
ServerResponse(dataset, res) ==
    [status |-> 200, dataset |-> dataset,
     results |-> SubSeq(res, 1, Min(Len(res), RESULT_CAP)),
     total_processed |-> Len(res)]

\* part_000:51-57   the request body is serialised when the call is made
BatchCall(handler, batch) ==
    [handler |-> handler,
     body |-> [i \in 1..Len(batch) |-> batch[i].src],
     status |-> "pending"]

\* part_002:71-82   batchResults.results: the prediction service answers
\* with one entry per row of the request body, in order
ServiceResults(body) ==
    [i \in 1..Len(body) |->
        [row |-> i - 1, src |-> body[i], kind |-> "success",
         error |-> Undefined, predictions |-> "predictions",
         consensus |-> "consensus", features |-> <<>>]]

\* Copy:110-116 and 130-136   the error entries of the catch block
CopyErrorEntries(batch, rowIdx) ==
    [i \in 1..Len(batch) |->
        [row |-> rowIdx - Len(batch) + (i - 1) + 1, src |-> batch[i].src,
         kind |-> "error", error |-> UpstreamMessage,
         predictions |-> Undefined, consensus |-> Undefined,
         features |-> batch[i].features]]

\* the empty-result branch answers and does not return
CopyResponsesSent_NoReturn(res) == IF Len(res) = 0 THEN 2 ELSE 1

\* Copy:144-151   the empty-result branch returns after its res.json, so
\* one response is sent on either branch
CopyResponsesSent(res) == 1

\* Copy:144-151
CopyResponse(dataset, res) ==
    IF Len(res) = 0
    THEN [status |-> 400, message |-> "No valid data found in CSV"]
    ELSE [status |-> 200, dataset |-> dataset, results |-> res]

---------------------------------------------------------------------------
(* GET /api/metrics and POST /api/predict: src/server/routes.ts:23-46 with  *)
(* the http helper of src/unnamed/part_000:17-49.                          *)

\* a value thrown by the code: an Error with its message
ErrorOf(msg) == [isError |-> TRUE, message |-> msg]

\* JSON bodies of POST /api/predict: the dataset field, the features field
\* (absent, or a map whose values are numbers or strings) and possibly a
\* further key
FeatureMaps ==
    { <<>>,
      <<[key |-> "f1", type |-> "number"]>>,
      <<[key |-> "f1", type |-> "number"], [key |-> "f2", type |-> "string"]>> }

PredictBodies ==
    [dataset : DatasetInputs, hasFeatures : BOOLEAN, features : FeatureMaps,
     extra : BOOLEAN]

\* query strings of GET /api/metrics
MetricsQueries ==
    [dataset : DatasetInputs, hasFeatures : {FALSE}, features : {<<>>}, extra : {FALSE}]

\* what the prediction service can answer to one HTTP call: a response (ok
\* or not, with its status and body text, valid JSON or not), or none at all
Replies ==
    { [arrived |-> TRUE, ok |-> TRUE, status |-> 200, text |-> "json", json |-> TRUE],
      [arrived |-> TRUE, ok |-> TRUE, status |-> 200, text |-> "not json", json |-> FALSE],
      [arrived |-> FALSE, ok |-> FALSE, status |-> 0, text |-> "", json |-> FALSE] }
    \cup [arrived : {TRUE}, ok : {FALSE}, status : {400, 500},
          text : {"", "detail"}, json : {FALSE}]

\* the schema lets any dataset through
SchemaParse_NoDatasetCheck(body) ==
    IF body.hasFeatures /\ \A k \in 1..Len(body.features) : body.features[k].type = "number"
    THEN [ok |-> TRUE, value |-> [dataset |-> body.dataset, features |-> body.features],
          error |-> ErrorOf("")]
    ELSE [ok |-> FALSE, value |-> [dataset |-> Undefined, features |-> <<>>],
          error |-> ErrorOf("zod issues")]

\* part_002:13-16   predictionInputSchema.parse: dataset is one of the enum,
\* features is a record of numbers; unknown keys are dropped; a ZodError is
\* thrown otherwise
SchemaParse(body) ==
    IF /\ body.dataset \in cancerDatasets
       /\ body.hasFeatures
       /\ \A k \in 1..Len(body.features) : body.features[k].type = "number"
    THEN [ok |-> TRUE, value |-> [dataset |-> body.dataset, features |-> body.features],
          error |-> ErrorOf("")]
    ELSE [ok |-> FALSE, value |-> [dataset |-> Undefined, features |-> <<>>],
          error |-> ErrorOf("zod issues")]

\* part_000:27   `Request failed: ${res.status}`
RequestFailed(status) ==
    CASE status = 400 -> "Request failed: 400"
      [] status = 500 -> "Request failed: 500"
      [] OTHER        -> "Request failed"

\* the status of the response is not looked at
Http_IgnoresStatus(reply) ==
    IF ~reply.arrived
    THEN [threw |-> TRUE, error |-> ErrorOf("fetch failed"), value |-> <<>>]
    ELSE [threw |-> FALSE, error |-> ErrorOf(""), value |-> <<"parsed", reply.text>>]

\* part_000:17-30   http: the parsed JSON of an ok response; otherwise an
\* Error is thrown, whose message is the body text or, when that is empty,
\* Request failed: <status>.  fetch and res.json() throw Errors of their own.
Http(reply) ==
    IF ~reply.arrived
    THEN [threw |-> TRUE, error |-> ErrorOf("fetch failed"), value |-> <<>>]
    ELSE IF ~reply.ok
    THEN [threw |-> TRUE,
          error |-> ErrorOf(IF reply.text # "" THEN reply.text
                            ELSE RequestFailed(reply.status)),
          value |-> <<>>]
    ELSE IF ~reply.json
    THEN [threw |-> TRUE, error |-> ErrorOf("Unexpected token"), value |-> <<>>]
    ELSE [threw |-> FALSE, error |-> ErrorOf(""), value |-> <<"parsed", reply.text>>]

\* part_000:43-48   the one HTTP call of storage.predict
PredictCall(input) ==
    [path |-> "/predict", body |-> [dataset |-> input.dataset, features |-> input.features],
     status |-> "pending", error |-> ErrorOf("")]

\* part_000:38-40   the one HTTP call of storage.getModelMetricsByDataset
MetricsCall(dataset) ==
    [path |-> "/metrics?dataset=", body |-> [dataset |-> dataset, features |-> <<>>],
     status |-> "pending", error |-> ErrorOf("")]

\* routes.ts:39-45   catch of POST /api/predict
PredictCatch(error) ==
    IF error.isError
    THEN [status |-> 400, message |-> error.message]
    ELSE [status |-> 500, message |-> "Prediction failed"]

\* the catch block answers with the text of the error
MetricsCatch_ExposesText(error) == [status |-> 500, message |-> error.message]

\* routes.ts:28-30   catch of GET /api/metrics
MetricsCatch(error) == [status |-> 500, message |-> "Failed to fetch metrics"]

\* the failed call is made again, once
HttpFailed_Retry(p, error) ==
    IF Len(p.http) < 2
    THEN [p EXCEPT !.http = [@ EXCEPT ![Len(@)].status = "failed", ![Len(@)].error = error]
                              \o <<[@[Len(@)] EXCEPT !.status = "pending"]>>]
    ELSE [p EXCEPT !.pc = "done",
                   !.http[Len(p.http)].status = "failed",
                   !.http[Len(p.http)].error = error,
                   !.thrown = error,
                   !.response = IF p.route = "predict" THEN PredictCatch(error)
                                ELSE MetricsCatch(error)]

\* routes.ts:28-30 and 39-45   the rejected await throws into the catch
\* block of the handler, which answers; no further call is made
HttpFailed(p, error) ==
    [p EXCEPT !.pc = "done",
              !.http[Len(p.http)].status = "failed",
              !.http[Len(p.http)].error = error,
              !.thrown = error,
              !.response = IF p.route = "predict" THEN PredictCatch(error)
                           ELSE MetricsCatch(error)]

\* routes.ts:27 and 38   res.json({ metrics }) / res.json(prediction)
ProxySuccess(p) ==
    [p EXCEPT !.pc = "done",
              !.http[Len(p.http)].status = "ok",
              !.response = IF p.route = "predict"
                           THEN [status |-> 200, prediction |-> "upstream prediction"]
                           ELSE [status |-> 200, metrics |-> "upstream metrics"]]

---------------------------------------------------------------------------
(* State *)

VARIABLES
    variant,        \* which routes file serves the request
    req,            \* the request as multer hands it over: file and dataset
    pc,             \* where the route handler is
    rows,           \* the row objects the csv parser will emit
    emitted,        \* number of "data" events emitted so far
    rowIndex,       \* let rowIndex
    currentBatch,   \* let currentBatch
    results,        \* const results
    calls,          \* HTTP calls made to the prediction service, in order
    response,       \* the response sent, NoResponse before
    sent,           \* number of responses sent for the request
    proxy,          \* a request to one of the other endpoints
    other,          \* a second batch request whose handlers are not running
    panel           \* the PredictionPanel of the client

batchVars == <<variant, req, pc, rows, emitted, rowIndex, currentBatch, results,
               calls, response, sent>>

vars == <<variant, req, pc, rows, emitted, rowIndex, currentBatch, results,
          calls, response, sent, proxy, other, panel>>

NoResponse == [status |-> 0]

\* no request to one of the other endpoints is being served
ProxyIdle ==
    [route |-> "none", pc |-> "idle",
     input |-> [dataset |-> Undefined, hasFeatures |-> FALSE, features |-> <<>>,
                extra |-> FALSE],
     http |-> <<>>, thrown |-> ErrorOf(""), response |-> NoResponse,
     reply |-> [arrived |-> FALSE, ok |-> FALSE, status |-> 0, text |-> "",
                json |-> FALSE],
     returned |-> [threw |-> FALSE, error |-> ErrorOf(""), value |-> <<>>]]

\* no second batch request is being served
NoOther == [present |-> FALSE]

\* prediction-panel.tsx:14   useState<File | null>(null)
NoFileSelected == "null"

\* no PredictionPanel is mounted
PanelIdle == [mounted |-> FALSE, selectedDataset |-> Undefined,
              csvFile |-> NoFileSelected, uploads |-> <<>>]

Requests == [file : Files \cup {NoFile}, dataset : DatasetInputs]

Init ==
    /\ variant \in {"server", "copy"}
    /\ req \in Requests
    /\ pc = "received"
    /\ rows = <<>>
    /\ emitted = 0
    /\ rowIndex = 0
    /\ currentBatch = <<>>
    /\ results = <<>>
    /\ calls = <<>>
    /\ response = NoResponse
    /\ sent = 0
    /\ panel = PanelIdle
    /\ proxy = ProxyIdle
    /\ other = NoOther

\* routes.ts:50-72 / Copy:65-87   validation, BOM strip, stream set-up
Validate ==
    /\ pc = "received"
    /\ IF FileMissing(req)
       THEN /\ response' = NoFileResponse
            /\ sent' = sent + 1
            /\ pc' = "done"
            /\ rows' = rows
       ELSE IF ~ValidDataset(req.dataset)
       THEN /\ response' = InvalidDatasetResponse
            /\ sent' = sent + 1
            /\ pc' = "done"
            /\ rows' = rows
       ELSE /\ rows' = ParseCsv(StripBom(req.file))
            /\ pc' = "streaming"
            /\ response' = response
            /\ sent' = sent
    /\ UNCHANGED <<panel, proxy, other>>
    /\ UNCHANGED <<variant, req, emitted, rowIndex, currentBatch, results, calls>>

\* routes.ts:73-118   .on("data", (row) => ...)
ServerData ==
    /\ variant = "server"
    /\ pc = "streaming"
    /\ emitted < Len(rows)
    /\ LET features == ServerFeatures(rows[emitted + 1])
           batch == IF HasFeatures(features)
                    THEN Append(currentBatch, [src |-> emitted, features |-> features])
                    ELSE currentBatch
       IN  IF Len(batch) >= BATCH_SIZE
           THEN /\ results' = results \o ServerFlushEntries(batch, rowIndex)
                /\ calls' = calls \o ServerFlushCalls(batch)
                /\ currentBatch' = <<>>
           ELSE /\ results' = results
                /\ calls' = calls
                /\ currentBatch' = batch
    /\ rowIndex' = rowIndex + 1
    /\ emitted' = emitted + 1
    /\ UNCHANGED <<panel, proxy, other, sent>>
    /\ UNCHANGED <<variant, req, pc, rows, response>>

\* routes.ts:119-144   .on("end", () => ...)
ServerEnd ==
    /\ variant = "server"
    /\ pc = "streaming"
    /\ emitted = Len(rows)
    /\ results' = results \o ServerFlushEntries(currentBatch, rowIndex)
    /\ calls' = calls \o ServerFlushCalls(currentBatch)
    /\ pc' = "resolved"
    /\ UNCHANGED <<panel, proxy, other, sent>>
    /\ UNCHANGED <<variant, req, rows, emitted, rowIndex, currentBatch, response>>

\* routes.ts:148-154   after await new Promise(...)
ServerRespond ==
    /\ variant = "server"
    /\ pc = "resolved"
    /\ response' = ServerResponse(req.dataset, results)
    /\ sent' = sent + 1
    /\ pc' = "done"
    /\ UNCHANGED <<panel, proxy, other>>
    /\ UNCHANGED <<variant, req, rows, emitted, rowIndex, currentBatch, results, calls>>

\* part_000:17-30, 43-49   the HTTP call of one storage.predict settles.
\* Nothing awaits the promise and nothing handles its rejection.
PredictSettles ==
    /\ \E i \in 1..Len(calls), outcome \in {"ok", "failed"} :
        /\ calls[i].handler = "row"
        /\ calls[i].status = "pending"
        /\ calls' = [calls EXCEPT ![i].status = outcome]
    /\ UNCHANGED <<panel, proxy, other, sent>>
    /\ UNCHANGED <<variant, req, pc, rows, emitted, rowIndex, currentBatch, results,
                   response>>

\* Copy:88-102 and 104   .on("data", async (row) => ...) up to its await
CopyData ==
    /\ variant = "copy"
    /\ pc = "streaming"
    /\ emitted < Len(rows)
    /\ LET batch == Append(currentBatch,
                      [src |-> emitted, features |-> CopyNumericRow(rows[emitted + 1])])
       IN  /\ currentBatch' = batch
           /\ calls' = IF Len(batch) >= COPY_BATCH_SIZE
                       THEN Append(calls, BatchCall("data", batch))
                       ELSE calls
    /\ rowIndex' = rowIndex + 1
    /\ emitted' = emitted + 1
    /\ UNCHANGED <<panel, proxy, other, sent>>
    /\ UNCHANGED <<variant, req, pc, rows, results, response>>

\* Copy:104-118   the data handler resumes after await storage.batchPredict
CopyDataResumes ==
    /\ \E i \in 1..Len(calls), outcome \in {"ok", "failed"} :
        /\ calls[i].handler = "data"
        /\ calls[i].status = "pending"
        /\ calls' = [calls EXCEPT ![i].status = outcome]
        /\ results' = IF outcome = "ok"
                      THEN results \o ServiceResults(calls[i].body)
                      ELSE results \o CopyErrorEntries(currentBatch, rowIndex)
    /\ currentBatch' = <<>>
    /\ UNCHANGED <<panel, proxy, other, sent>>
    /\ UNCHANGED <<variant, req, pc, rows, emitted, rowIndex, response>>

\* Copy:121-125 and 139   .on("end", async () => ...) up to its await, or
\* to resolve() when nothing is left in currentBatch
CopyEnd ==
    /\ variant = "copy"
    /\ pc = "streaming"
    /\ emitted = Len(rows)
    /\ IF Len(currentBatch) > 0
       THEN /\ calls' = Append(calls, BatchCall("end", currentBatch))
            /\ pc' = "ending"
       ELSE /\ calls' = calls
            /\ pc' = "resolved"
    /\ UNCHANGED <<panel, proxy, other, sent>>
    /\ UNCHANGED <<variant, req, rows, emitted, rowIndex, currentBatch, results,
                   response>>

\* Copy:125-139   the end handler resumes after its await and resolves
CopyEndResumes ==
    /\ pc = "ending"
    /\ \E i \in 1..Len(calls), outcome \in {"ok", "failed"} :
        /\ calls[i].handler = "end"
        /\ calls[i].status = "pending"
        /\ calls' = [calls EXCEPT ![i].status = outcome]
        /\ results' = IF outcome = "ok"
                      THEN results \o ServiceResults(calls[i].body)
                      ELSE results \o CopyErrorEntries(currentBatch, rowIndex)
    /\ pc' = "resolved"
    /\ UNCHANGED <<panel, proxy, other, sent>>
    /\ UNCHANGED <<variant, req, rows, emitted, rowIndex, currentBatch, response>>

\* Copy:144-151   after await new Promise(...)
CopyRespond ==
    /\ variant = "copy"
    /\ pc = "resolved"
    /\ response' = CopyResponse(req.dataset, results)
    /\ sent' = sent + CopyResponsesSent(results)
    /\ pc' = "done"
    /\ UNCHANGED <<panel, proxy, other>>
    /\ UNCHANGED <<variant, req, rows, emitted, rowIndex, currentBatch, results, calls>>

Next ==
    \/ Validate
    \/ ServerData
    \/ ServerEnd
    \/ ServerRespond
    \/ PredictSettles
    \/ CopyData
    \/ CopyDataResumes
    \/ CopyEnd
    \/ CopyEndResumes
    \/ CopyRespond

Spec == Init /\ [][Next]_vars

\* the event loop runs every callback that is ready, and every HTTP call
\* to the prediction service settles (part_000:18: the fetch is fulfilled
\* or rejected).  The uploads are those without a byte-order mark.
InitLive == Init /\ (~req.file.present \/ req.file.bom = 0)

SpecLive == InitLive /\ [][Next]_vars /\ WF_vars(Next)

---------------------------------------------------------------------------
(* Notions the properties are stated with *)

Pending == { i \in 1..Len(calls) : calls[i].status = "pending" }

Failed == { i \in 1..Len(calls) : calls[i].status = "failed" }

\* zero-based indices of the CSV data rows
RowIds == 0..(Len(rows) - 1)

\* the result entries computed from CSV data row r
EntriesOf(r) == { k \in 1..Len(results) : results[k].src = r }

\* the prediction-service calls whose body holds CSV data row r
CallsWith(r) ==
    { i \in 1..Len(calls) : \E k \in 1..Len(calls[i].body) : calls[i].body[k] = r }

\* the row object has a numeric value in a column that is not a target column
HasNumericFeature(row) ==
    \E j \in 1..Len(row) :
        /\ ~(row[j].key.bom = 0 /\ row[j].key.name \in targetColumns)
        /\ ~parseFloat(row[j].value).nan

NumericRow(r) == HasNumericFeature(rows[r + 1])

NumericRowsIn(parsed) ==
    Cardinality({ i \in 1..Len(parsed) : HasNumericFeature(parsed[i]) })

NumericRowCount == NumericRowsIn(rows)

Accepted == req.file.present /\ req.dataset \in {"breast", "gastric", "lung"}

---------------------------------------------------------------------------
(* C1..C5: what the specification says of failures and of the timing of    *)
(* the prediction calls.                                                   *)

\* C1: in src/server/routes.ts, when the prediction call of a row fails, the
\* request is still answered 200 and the row's entry in results carries an
\* error message.
C1_FailedRowIsErrorEntry ==
    (variant = "server" /\ pc = "done" /\ Accepted) =>
        \A i \in Failed :
            /\ response.status = 200
            /\ \E k \in EntriesOf(calls[i].body[1]) : results[k].kind = "error"

\* C2: in src/server - Copy/routes.ts, when batchPredict fails for a batch of
\* k rows, exactly k error entries, one per row of that batch, are appended
\* to results, the earlier entries are kept and the request is not failed.
C2_FailedBatchOneErrorPerRow ==
    [][ variant = "copy" =>
          \A i \in 1..Len(calls) :
              (calls[i].status = "pending" /\ calls'[i].status = "failed") =>
                  /\ Len(results') = Len(results) + Len(calls[i].body)
                  /\ SubSeq(results', 1, Len(results)) = results
                  /\ \A k \in 1..Len(calls[i].body) :
                        /\ results'[Len(results) + k].kind = "error"
                        /\ results'[Len(results) + k].src = calls[i].body[k]
                  /\ response' = response ]_vars

\* C3: within one request at most one prediction-service call is in flight
\* at any moment.
C3_OneCallInFlight == Cardinality(Pending) <= 1

\* C4: in src/server - Copy/routes.ts, when the response is sent no batch
\* call is pending any more and results gets no further entry: the response
\* holds every outcome.
C4_ResponseAfterAllCalls ==
    (variant = "copy" /\ pc = "done" /\ Accepted) =>
        /\ Pending = {}
        /\ response.status = 200 => response.results = results

\* C5: in src/server - Copy/routes.ts, every parsed data row is sent to the
\* prediction service at most once and, once all calls have completed, has
\* exactly one outcome in results.
C5_EachRowExactlyOnce ==
    variant = "copy" =>
        \A r \in RowIds :
            /\ Cardinality(CallsWith(r)) <= 1
            /\ (pc = "done" /\ Pending = {}) => Cardinality(EntriesOf(r)) = 1

---------------------------------------------------------------------------
(* C6..C10: the result count, skipped rows, validation and the byte-order  *)
(* mark.                                                                   *)

\* C6: in src/server/routes.ts, for every accepted upload the response is a
\* 200 whose results list has min(n, cap) entries, n being the number of
\* data rows with at least one numeric feature.
C6_ResultCountIsMinOfRowsAndCap ==
    (variant = "server" /\ pc = "done" /\ Accepted) =>
        /\ response.status = 200
        /\ Len(response.results) = Min(NumericRowCount, RESULT_CAP)

C6_Witness ==
    /\ variant = "server" /\ pc = "done" /\ Accepted
    /\ NumericRowCount > RESULT_CAP
    /\ Len(response.results) = RESULT_CAP

\* C7: in src/server/routes.ts, a data row without numeric features is
\* never passed to the prediction call, has no entry in results and is not
\* counted in total_processed.
C7_RowsWithoutFeaturesSkipped ==
    variant = "server" =>
        /\ \A r \in RowIds :
              ~NumericRow(r) => (CallsWith(r) = {} /\ EntriesOf(r) = {})
        /\ (pc = "done" /\ Accepted) => response.total_processed = NumericRowCount

C7_Witness ==
    /\ variant = "server" /\ pc = "done" /\ Accepted
    /\ \E r, q \in RowIds : r < q /\ ~NumericRow(r) /\ NumericRow(q) /\ EntriesOf(q) # {}
    /\ response.total_processed < Len(rows)

\* C8: a request whose dataset field is not breast, gastric or lung (or is
\* missing) is answered 400, with or without a file and whatever the file
\* holds; it never reaches the CSV stream or the prediction service.
C8_InvalidDatasetIs400 ==
    req.dataset \notin {"breast", "gastric", "lung"} =>
        /\ pc \in {"received", "done"}
        /\ calls = <<>>
        /\ pc = "done" => response.status = 400

C8_Witness ==
    /\ pc = "done"
    /\ req.dataset = "colon"
    /\ req.file.present /\ Len(req.file.rows) > 0
    /\ response.status = 400

\* C9: in src/server/routes.ts, a request without a file is answered 400
\* "No file uploaded", and a 400 is only ever the answer to a missing file or
\* an invalid dataset, never to failed prediction calls.
C9_Only400ForFileOrDataset ==
    (variant = "server" /\ pc = "done") =>
        /\ ~req.file.present =>
              response = [status |-> 400, message |-> "No file uploaded"]
        /\ response.status = 400 => ~Accepted
        /\ Failed # {} => response.status = 200

C9_Witness ==
    /\ variant = "server" /\ pc = "done" /\ Accepted
    /\ Failed # {}
    /\ response.status = 200

\* the upload c for which the request's file is a byte-order mark followed by c
AfterFirstBom(file) == [file EXCEPT !.bom = @ - 1]

\* what the handler reads from the upload c: src/server/routes.ts:62-72
RowsReadFrom(c) == ParseCsv(IF c.bom > 0 THEN AfterFirstBom(c) ELSE c)

\* C10 as stated: for every CSV content c, the upload of a byte-order mark
\* followed by c is read as the upload of c alone: same rows, same keys, and
\* so the same number of outcomes.
C10_BomPrefixedReadsAlike ==
    (Accepted /\ pc # "received" /\ req.file.bom >= 1) =>
        /\ rows = RowsReadFrom(AfterFirstBom(req.file))
        /\ (variant = "server" /\ pc = "done") =>
              response.total_processed = NumericRowsIn(RowsReadFrom(AfterFirstBom(req.file)))

\* C10 amended: the same for every CSV content c that does not itself begin
\* with a byte-order mark.
C10_BomPrefixedReadsAlikeNoBomInContent ==
    (Accepted /\ pc # "received" /\ req.file.bom = 1) =>
        /\ rows = RowsReadFrom(AfterFirstBom(req.file))
        /\ (variant = "server" /\ pc = "done") =>
              response.total_processed = NumericRowsIn(RowsReadFrom(AfterFirstBom(req.file)))

C10_Witness ==
    /\ Accepted /\ pc = "done" /\ variant = "server"
    /\ req.file.bom = 1
    /\ req.file.header[1] \in targetColumns
    /\ \E r, q \in RowIds : ~NumericRow(r) /\ NumericRow(q)
    /\ response.status = 200

---------------------------------------------------------------------------
(* The metrics and predict requests as a state machine of their own *)

\* one request, of either route, arrives; no batch request is being served
InitProxy ==
    /\ variant = "server"
    /\ req = [file |-> NoFile, dataset |-> Undefined]
    /\ pc = "idle"
    /\ rows = <<>>
    /\ emitted = 0
    /\ rowIndex = 0
    /\ currentBatch = <<>>
    /\ results = <<>>
    /\ calls = <<>>
    /\ response = NoResponse
    /\ sent = 0
    /\ panel = PanelIdle
    /\ other = NoOther
    /\ \/ \E b \in PredictBodies :
            proxy = [ProxyIdle EXCEPT !.route = "predict", !.pc = "received", !.input = b]
       \/ \E q \in MetricsQueries :
            proxy = [ProxyIdle EXCEPT !.route = "metrics", !.pc = "received", !.input = q]

\* routes.ts:34-37   the body is parsed against the schema; a valid input
\* is sent to the prediction service and the handler awaits the answer
PredictReceive ==
    /\ proxy.route = "predict"
    /\ proxy.pc = "received"
    /\ LET parsed == SchemaParse(proxy.input)
       IN  IF parsed.ok
           THEN proxy' = [proxy EXCEPT !.pc = "calling",
                                       !.http = <<PredictCall(parsed.value)>>]
           ELSE proxy' = [proxy EXCEPT !.pc = "done",
                                       !.thrown = parsed.error,
                                       !.response = PredictCatch(parsed.error)]
    /\ UNCHANGED <<batchVars, other, panel>>

\* routes.ts:23-26   the dataset of the query string goes to the service
\* as it is and the handler awaits the answer
MetricsReceive ==
    /\ proxy.route = "metrics"
    /\ proxy.pc = "received"
    /\ proxy' = [proxy EXCEPT !.pc = "calling",
                              !.http = <<MetricsCall(proxy.input.dataset)>>]
    /\ UNCHANGED <<batchVars, other, panel>>

\* routes.ts:26-30 and 37-45   the awaited call settles: the handler
\* answers with the data, or its catch block answers
UpstreamSettles ==
    /\ proxy.pc = "calling"
    /\ \E reply \in Replies :
         LET outcome == Http(reply)
         IN  proxy' = [(IF outcome.threw THEN HttpFailed(proxy, outcome.error)
                        ELSE ProxySuccess(proxy))
                          EXCEPT !.reply = reply, !.returned = outcome]
    /\ UNCHANGED <<batchVars, other, panel>>

NextProxy == PredictReceive \/ MetricsReceive \/ UpstreamSettles

SpecProxy == InitProxy /\ [][NextProxy]_vars

---------------------------------------------------------------------------
(* Two POST /api/predict/batch requests served by one process.  The state  *)
(* variables above are those of the request whose handler code is running; *)
(* the state of the request that is waiting is kept in other.             *)

MaxRowsTwo == 2

\* the uploads of the two requests: no byte-order mark, one header line,
\* rows with a number in one column or in none
TwoFiles ==
    { f \in Files : /\ f.bom = 0
                    /\ f.header = <<"f1", "f2">>
                    /\ Len(f.rows) \in 1..MaxRowsTwo
                    /\ \A k \in 1..Len(f.rows) : f.rows[k] \in {<<"7", "x">>, <<"x", "x">>} }

\* the running request names one dataset, the waiting one the same or another
TwoRequests == [file : TwoFiles, dataset : {"breast", "lung"}]

\* the state of the running request, as a record
Running ==
    [present |-> TRUE, req |-> req, pc |-> pc, rows |-> rows, emitted |-> emitted,
     rowIndex |-> rowIndex, currentBatch |-> currentBatch, results |-> results,
     calls |-> calls, response |-> response, sent |-> sent]

\* currentBatch is one variable of the module, shared by all requests
ClosureBatch_ModuleLevel(left, own) == left

\* routes.ts:66 / Copy:81   let currentBatch is declared in the route
\* handler: the code of a request sees the variable of its own invocation,
\* not the one left by the code that ran before it
ClosureBatch(left, own) == own

InitTwo ==
    /\ variant \in {"server", "copy"}
    /\ req \in { r \in TwoRequests : r.dataset = "breast" }
    /\ pc = "received"
    /\ rows = <<>>
    /\ emitted = 0
    /\ rowIndex = 0
    /\ currentBatch = <<>>
    /\ results = <<>>
    /\ calls = <<>>
    /\ response = NoResponse
    /\ sent = 0
    /\ panel = PanelIdle
    /\ proxy = ProxyIdle
    /\ \E r \in TwoRequests :
         other = [present |-> TRUE, req |-> r, pc |-> "received", rows |-> <<>>,
                  emitted |-> 0, rowIndex |-> 0, currentBatch |-> <<>>,
                  results |-> <<>>, calls |-> <<>>, response |-> NoResponse,
                  sent |-> 0]

\* routes.ts:49-68 / Copy:64-83   the event loop runs a handler or a
\* continuation of the other request: the code now running is the other
\* invocation of the route handler, with its own req, results,
\* currentBatch and rowIndex
Switch ==
    /\ other.present
    /\ req' = other.req
    /\ pc' = other.pc
    /\ rows' = other.rows
    /\ emitted' = other.emitted
    /\ rowIndex' = other.rowIndex
    /\ currentBatch' = ClosureBatch(currentBatch, other.currentBatch)
    /\ results' = other.results
    /\ calls' = other.calls
    /\ response' = other.response
    /\ sent' = other.sent
    /\ other' = Running
    /\ UNCHANGED <<variant, proxy, panel>>

NextTwo == Next \/ Switch

SpecTwo == InitTwo /\ [][NextTwo]_vars

---------------------------------------------------------------------------
(* C11..C20 *)

\* the column is one of the five target columns named in routes.ts:78
NamedTarget(key) ==
    /\ key.bom = 0
    /\ key.name \in {"classes", "Sample_Characteristics", "target", "label", "diagnosis"}

\* C11: in src/server/routes.ts, the feature map passed to the prediction
\* call of a row holds exactly the columns that are not target columns and
\* whose value parses to a number, each with that number.
C11_FeatureMapIsNumericNonTarget ==
    variant = "server" =>
        \A i \in 1..Len(calls) :
            LET row == rows[calls[i].body[1] + 1]
                f   == calls[i].features
            IN  /\ \A j \in 1..Len(row) :
                      (\E k \in 1..Len(f) : f[k].key = row[j].key)
                          <=> (~NamedTarget(row[j].key) /\ ~parseFloat(row[j].value).nan)
                /\ \A k \in 1..Len(f) :
                      \E j \in 1..Len(row) :
                          /\ row[j].key = f[k].key
                          /\ parseFloat(row[j].value) = [nan |-> FALSE, val |-> f[k].value]

C11_Witness ==
    /\ variant = "server"
    /\ \E i \in 1..Len(calls) :
          LET row == rows[calls[i].body[1] + 1]
          IN  /\ \E j \in 1..Len(row) :
                    NamedTarget(row[j].key) /\ ~parseFloat(row[j].value).nan
              /\ Len(calls[i].features) = 1

\* C12: in src/server/routes.ts, the response never holds more than the cap
\* of entries, they are the first outcomes produced, and total_processed is
\* the number of outcomes produced: it exceeds the length of results exactly
\* when more than cap outcomes were produced.
C12_CapAndTotalProcessed ==
    (variant = "server" /\ pc = "done" /\ Accepted) =>
        /\ Len(response.results) <= RESULT_CAP
        /\ response.results = SubSeq(results, 1, Len(response.results))
        /\ response.total_processed = Len(results)
        /\ (response.total_processed > Len(response.results)) <=> (Len(results) > RESULT_CAP)

C12_Witness ==
    /\ variant = "server" /\ pc = "done" /\ Accepted
    /\ response.total_processed > Len(response.results)
    /\ Len(response.results) = RESULT_CAP

\* C13: the results list of the response is ordered as the CSV: the outcome
\* of an earlier data row comes before the outcome of a later one.
C13_ResultsInCsvOrder ==
    (pc = "done" /\ response.status = 200) =>
        \A k, l \in 1..Len(response.results) :
            response.results[k].src < response.results[l].src => k < l

\* C14: in src/server/routes.ts, the row field of every result entry is the
\* zero-based index of the CSV data row the entry was computed from.
C14_RowIsCsvIndex ==
    variant = "server" =>
        \A k \in 1..Len(results) : results[k].row = results[k].src

\* C18: in src/server - Copy/routes.ts, every batchPredict call carries at
\* most BATCH_SIZE rows, and every call but the one of the end handler
\* carries exactly BATCH_SIZE rows.
C18_BatchesAreFixedSize ==
    variant = "copy" =>
        \A i \in 1..Len(calls) :
            /\ Len(calls[i].body) <= COPY_BATCH_SIZE
            /\ calls[i].handler = "data" => Len(calls[i].body) = COPY_BATCH_SIZE

\* C20: in src/server/routes.ts, every result entry without an error carries
\* the predictions and the consensus returned by the prediction service.
C20_SuccessEntriesCarryPredictions ==
    variant = "server" =>
        \A k \in 1..Len(results) :
            results[k].kind = "success" =>
                /\ results[k].predictions # Undefined
                /\ results[k].consensus # Undefined


\* the body of a predict request does not satisfy the schema
InvalidPredictInput(b) ==
    \/ b.dataset \notin {"breast", "gastric", "lung"}
    \/ ~b.hasFeatures
    \/ \E k \in 1..Len(b.features) : b.features[k].type # "number"

\* the call of the request that failed, if one did
FailedCall == { i \in 1..Len(proxy.http) : proxy.http[i].status = "failed" }

\* C15: POST /api/predict forwards only an input that satisfies the schema
\* (a known dataset and a map of numbers), and forwards just its dataset and
\* features; a body that fails the schema is answered 400 with the error
\* message and nothing is forwarded; a failure of the prediction service is
\* answered 400 with the message of that error; 500 "Prediction failed" is
\* kept for a thrown value that is not an Error.
C15_PredictValidatesAndTranslates ==
    proxy.route = "predict" =>
        /\ \A i \in 1..Len(proxy.http) :
              /\ ~InvalidPredictInput(proxy.input)
              /\ proxy.http[i].path = "/predict"
              /\ proxy.http[i].body = [dataset |-> proxy.input.dataset,
                                       features |-> proxy.input.features]
        /\ (proxy.pc = "done" /\ InvalidPredictInput(proxy.input)) =>
              /\ proxy.http = <<>>
              /\ proxy.response.status = 400
              /\ proxy.response.message = proxy.thrown.message
        /\ (proxy.pc = "done" /\ FailedCall # {}) =>
              /\ proxy.response.status = 400
              /\ \A i \in FailedCall : proxy.response.message = proxy.http[i].error.message
        /\ (proxy.pc = "done" /\ proxy.response.status = 500) =>
              /\ ~proxy.thrown.isError
              /\ proxy.response.message = "Prediction failed"
        /\ (proxy.pc = "done" /\ proxy.response.status = 200) =>
              /\ ~InvalidPredictInput(proxy.input)
              /\ Len(proxy.http) = 1 /\ proxy.http[1].status = "ok"

\* a predict request whose upstream call failed with a body text, answered
C15_Witness ==
    /\ proxy.route = "predict"
    /\ proxy.pc = "done"
    /\ FailedCall # {}
    /\ proxy.response = [status |-> 400, message |-> "detail"]

\* C16: a metrics or predict request makes at most one call to the
\* prediction service; when that call fails the request is answered and no
\* call is made again.
C16_NoRetry ==
    /\ Len(proxy.http) <= 1
    /\ FailedCall # {} => (proxy.pc = "done" /\ proxy.response.status \in {400, 500})

\* a request answered after its only call failed
C16_Witness ==
    /\ proxy.pc = "done"
    /\ Len(proxy.http) = 1
    /\ proxy.http[1].status = "failed"
    /\ proxy.response.status >= 400

\* C19: GET /api/metrics answers a failure of the prediction service with
\* status 500 and the fixed message, whatever the upstream error says, and a
\* success with the upstream metrics as { metrics }.
C19_MetricsFailureIsFixed500 ==
    (proxy.route = "metrics" /\ proxy.pc = "done") =>
        /\ Len(proxy.http) = 1
        /\ proxy.http[1].status = "failed" =>
              proxy.response = [status |-> 500, message |-> "Failed to fetch metrics"]
        /\ proxy.http[1].status = "ok" =>
              proxy.response = [status |-> 200, metrics |-> "upstream metrics"]

\* a metrics request answered after the service failed with a body text
C19_Witness ==
    /\ proxy.route = "metrics"
    /\ proxy.pc = "done"
    /\ proxy.http[1].status = "failed"
    /\ proxy.http[1].error.message = "detail"
    /\ proxy.response.status = 500


\* the features the route computes from a row object
FeaturesOf(row) == IF variant = "server" THEN ServerFeatures(row) ELSE CopyNumericRow(row)

\* sequence q of row indices is strictly increasing
Increasing(q) == \A k, l \in 1..Len(q) : k < l => q[k] < q[l]

\* everything request st holds and answers comes from its own upload and
\* dataset field
OwnOnly(st) ==
    LET own == IF st.pc = "received" THEN <<>> ELSE ParseCsv(StripBom(st.req.file))
        ids == 0..(Len(own) - 1)
    IN  /\ st.rows = own
        /\ st.emitted <= Len(own)
        /\ st.rowIndex = st.emitted
        /\ Increasing([k \in 1..Len(st.currentBatch) |-> st.currentBatch[k].src])
        /\ \A k \in 1..Len(st.currentBatch) :
              /\ st.currentBatch[k].src \in ids
              /\ st.currentBatch[k].src < st.emitted
              /\ st.currentBatch[k].features = FeaturesOf(own[st.currentBatch[k].src + 1])
        /\ \A i \in 1..Len(st.calls) :
              /\ Increasing(st.calls[i].body)
              /\ \A k \in 1..Len(st.calls[i].body) : st.calls[i].body[k] \in ids
              /\ variant = "server" =>
                    st.calls[i].features = ServerFeatures(own[st.calls[i].body[1] + 1])
        /\ \A k \in 1..Len(st.results) :
              /\ st.results[k].src \in ids
              /\ st.results[k].row <= Len(own)
              /\ st.results[k].kind = "error" =>
                    st.results[k].features = FeaturesOf(own[st.results[k].src + 1])
        /\ variant = "server" =>
              /\ Len(st.results) <= NumericRowsIn(own)
              /\ Increasing([k \in 1..Len(st.results) |-> st.results[k].src])
        /\ (st.pc = "done" /\ variant = "server") =>
              /\ st.response.status = 200
              /\ st.response.dataset = st.req.dataset
              /\ st.response.total_processed = NumericRowsIn(own)
              /\ st.response.results = SubSeq(st.results, 1, Len(st.response.results))
        /\ (st.pc = "done" /\ variant = "copy" /\ st.response.status = 200) =>
              /\ st.response.dataset = st.req.dataset
              /\ st.response.results = SubSeq(st.results, 1, Len(st.response.results))

\* C17: when two batch requests are served interleaved, what each of them
\* holds (rows, batch, calls, results) and answers (results, row indices,
\* total_processed, dataset) comes from its own file and dataset field only;
\* in src/server/routes.ts, where nothing else enters the answer, two
\* requests with the same file and dataset get the same answer however
\* their steps interleave.
C17_RequestsIndependent ==
    other.present =>
        /\ OwnOnly(Running)
        /\ OwnOnly(other)
        /\ (variant = "server" /\ pc = "done" /\ other.pc = "done" /\ req = other.req) =>
              response = other.response

\* a request answered 200 while the other request, with another file, is
\* in the middle of its rows with a batch begun
C17_Witness ==
    /\ other.present
    /\ pc = "done"
    /\ response.status = 200
    /\ Len(calls) > 0
    /\ other.pc = "streaming"
    /\ other.emitted < Len(other.rows)
    /\ other.currentBatch # <<>>
    /\ req.file # other.req.file

---------------------------------------------------------------------------
(* POST /api/analyze-csv and GET /api/survival-analysis:                   *)
(* src/server/routes.ts:165-227.  Neither calls the prediction service.   *)

MaxLines == 3

\* routes.ts:190   featureCount <= 10
SmallFeatureCount == 10

\* routes.ts:193   featureCount > 100
LargeFeatureCount == 100

\* routes.ts:184   const targetCandidates
targetCandidates == <<"classes", "Sample_Characteristics", "target", "label", "diagnosis">>

\* one comma-separated field of the header line: its name, whether blanks
\* surround it and whether it stands in double quotes
Field(n, p, q) == [name |-> n, padded |-> p, quoted |-> q]

\* the first fields of the header lines
NamedFields ==
    { <<>>,
      <<Field("label", FALSE, FALSE)>>,
      <<Field("Label", FALSE, FALSE)>>,
      <<Field("label", TRUE, TRUE)>>,
      <<Field("label", FALSE, FALSE), Field("classes", FALSE, FALSE)>>,
      <<Field("diagnosis", FALSE, TRUE), Field("target", TRUE, FALSE)>>,
      <<Field("id", FALSE, FALSE), Field("Sample_Characteristics", FALSE, FALSE)>> }

\* the numbers of further fields of the header lines
FurtherFields ==
    {1} \cup { SmallFeatureCount + d : d \in -1..1 }
        \cup { LargeFeatureCount + d : d \in -1..1 }

AnalyzeHeaders ==
    { named \o [i \in 1..n |-> Field("f", FALSE, FALSE)] :
        named \in NamedFields, n \in FurtherFields }

\* the uploads of POST /api/analyze-csv: byte-order marks, then lines that
\* are blank (empty or white space) or text; header holds the fields of
\* the first text line
AnalyzeFiles ==
    { [present |-> FALSE, bom |-> 0, lines |-> <<"blank">>, header |-> <<>>] }
    \cup { [present |-> TRUE, bom |-> b, lines |-> ls, header |-> h] :
              b \in 0..MaxBom,
              ls \in SeqsUpTo({"blank", "text"}, MaxLines) \ {<<>>},
              h \in AnalyzeHeaders }

\* routes.ts:173   cleaned.split('\n'): what is left of the byte-order marks
\* begins the first line
SplitLines(text) ==
    [i \in 1..Len(text.lines) |->
        [kind |-> text.lines[i], bom |-> IF i = 1 THEN text.bom ELSE 0]]

\* routes.ts:173   line.trim(): white space, line ends and U+FEFF are
\* trimmed, so a line of these alone gives the empty string
TrimmedIsEmpty(line) == line.kind = "blank"

\* every line is kept
NonBlankLines_KeepsBlank(text) == SplitLines(text)

\* routes.ts:173   .filter(line => line.trim())
NonBlankLines(text) == SelectSeq(SplitLines(text), LAMBDA l : ~TrimmedIsEmpty(l))

\* routes.ts:179   h.trim().replace(/"/g, ''): the name without the blanks
\* and quotes around it
CleanField(f) == f.name

\* routes.ts:179   lines[0].split(',').map(...)
HeaderNames(text) == [j \in 1..Len(text.header) |-> CleanField(text.header[j])]

\* the first header name that is a candidate
FindTarget_HeaderOrder(names) ==
    LET hits == SelectSeq(names, LAMBDA n : \E c \in 1..Len(targetCandidates) :
                                              targetCandidates[c] = n)
    IN  IF hits = <<>> THEN Undefined ELSE hits[1]

\* routes.ts:185   targetCandidates.find(col => headers.includes(col))
FindTarget(names) ==
    LET hits == SelectSeq(targetCandidates,
                          LAMBDA c : \E j \in 1..Len(names) : names[j] = c)
    IN  IF hits = <<>> THEN Undefined ELSE hits[1]

\* breast is suggested below the small count only
SuggestDatasets_Below(featureCount) ==
    LET small == IF featureCount < SmallFeatureCount THEN <<"breast">> ELSE <<>>
        both  == IF featureCount > LargeFeatureCount
                 THEN small \o <<"gastric", "lung">> ELSE small
    IN  IF Len(both) = 0 THEN <<"breast", "gastric", "lung">> ELSE both

\* routes.ts:188-199
SuggestDatasets(featureCount) ==
    LET small == IF featureCount <= SmallFeatureCount THEN <<"breast">> ELSE <<>>
        both  == IF featureCount > LargeFeatureCount
                 THEN small \o <<"gastric", "lung">> ELSE small
    IN  IF Len(both) = 0 THEN <<"breast", "gastric", "lung">> ELSE both

\* routes.ts:166-209   the answer of POST /api/analyze-csv
AnalyzeResponse(file) ==
    IF ~file.present
    THEN [status |-> 400, message |-> "No file uploaded"]
    ELSE LET lines == NonBlankLines(StripBom(file))
         IN  IF Len(lines) < 2
             THEN [status |-> 400,
                   message |-> "CSV file must have at least a header and one data row"]
             ELSE LET headers == HeaderNames(file)
                      targetColumn == FindTarget(headers)
                      featureCount == Len(headers)
                                        - (IF targetColumn # Undefined THEN 1 ELSE 0)
                  IN  [status |-> 200,
                       rows |-> Len(lines) - 1,
                       columns |-> headers,
                       column_count |-> Len(headers),
                       has_target |-> targetColumn # Undefined,
                       target_column |-> targetColumn,
                       suggested_datasets |-> SuggestDatasets(featureCount)]

\* routes.ts:226   dataset: dataset || "breast"
SurvivalDataset(dataset) ==
    IF dataset = Undefined \/ dataset = "" THEN "breast" ELSE dataset

\* values of the dataset query parameter of GET /api/survival-analysis
SurvivalQueries == DatasetInputs \cup {""}

\* a request to one of the two endpoints arrives
InitLocal ==
    /\ variant = "server"
    /\ req = [file |-> NoFile, dataset |-> Undefined]
    /\ pc = "idle"
    /\ rows = <<>>
    /\ emitted = 0
    /\ rowIndex = 0
    /\ currentBatch = <<>>
    /\ results = <<>>
    /\ calls = <<>>
    /\ response = NoResponse
    /\ sent = 0
    /\ panel = PanelIdle
    /\ other = NoOther
    /\ \/ \E f \in AnalyzeFiles :
            proxy = [ProxyIdle EXCEPT !.route = "analyze", !.pc = "received", !.input = f]
       \/ \E d \in SurvivalQueries :
            proxy = [ProxyIdle EXCEPT !.route = "survival", !.pc = "received",
                                      !.input = [dataset |-> d]]

\* routes.ts:165-217   the handler of POST /api/analyze-csv
AnalyzeCsv ==
    /\ proxy.route = "analyze"
    /\ proxy.pc = "received"
    /\ proxy' = [proxy EXCEPT !.pc = "done", !.response = AnalyzeResponse(proxy.input)]
    /\ UNCHANGED <<batchVars, other, panel>>

\* routes.ts:220-227 and the res.json that follows the literal
SurvivalAnalysis ==
    /\ proxy.route = "survival"
    /\ proxy.pc = "received"
    /\ proxy' = [proxy EXCEPT !.pc = "done",
                              !.response = [status |-> 200,
                                            dataset |-> SurvivalDataset(proxy.input.dataset)]]
    /\ UNCHANGED <<batchVars, other, panel>>

NextLocal == AnalyzeCsv \/ SurvivalAnalysis

SpecLocal == InitLocal /\ [][NextLocal]_vars

---------------------------------------------------------------------------
(* The PredictionPanel of the client:                                      *)
(* src/client/src/components/prediction-panel.tsx                          *)

MaxUploads == 3

\* the files the user can choose
ClientFiles == {"a.csv", "b.csv"}

\* prediction-panel.tsx:96-102   the file input lies over the button and
\* has no disabled attribute: it takes a file at any time
InputEnabled(p) == TRUE

\* prediction-panel.tsx:12-14   the panel is rendered for a dataset
InitPanel ==
    /\ variant = "server"
    /\ req = [file |-> NoFile, dataset |-> Undefined]
    /\ pc = "idle"
    /\ rows = <<>>
    /\ emitted = 0
    /\ rowIndex = 0
    /\ currentBatch = <<>>
    /\ results = <<>>
    /\ calls = <<>>
    /\ response = NoResponse
    /\ sent = 0
    /\ proxy = ProxyIdle
    /\ other = NoOther
    /\ \E d \in cancerDatasets :
         panel = [mounted |-> TRUE, selectedDataset |-> d,
                  csvFile |-> NoFileSelected, uploads |-> <<>>]

\* prediction-panel.tsx:49-55 and 17-25   handleCsvUpload: the file is set
\* as csvFile and mutate(file) starts a POST /api/predict/batch
SelectFile ==
    /\ panel.mounted
    /\ InputEnabled(panel)
    /\ Len(panel.uploads) < MaxUploads
    /\ \E f \in ClientFiles :
         panel' = [panel EXCEPT
                     !.csvFile = f,
                     !.uploads = Append(@, [file |-> f, dataset |-> panel.selectedDataset,
                                            status |-> "pending"])]
    /\ UNCHANGED <<batchVars, proxy, other>>

\* prediction-panel.tsx:27-41   the response is ok: onSuccess clears csvFile
UploadSucceeds ==
    /\ \E i \in 1..Len(panel.uploads) :
         /\ panel.uploads[i].status = "pending"
         /\ panel' = [panel EXCEPT !.uploads[i].status = "ok",
                                   !.csvFile = NoFileSelected]
    /\ UNCHANGED <<batchVars, proxy, other>>

\* prediction-panel.tsx:22-30 and 42-48   the fetch fails or the response
\* is not ok: onError shows the message and leaves csvFile
UploadFails ==
    /\ \E i \in 1..Len(panel.uploads) :
         /\ panel.uploads[i].status = "pending"
         /\ panel' = [panel EXCEPT !.uploads[i].status = "failed"]
    /\ UNCHANGED <<batchVars, proxy, other>>

NextPanel == SelectFile \/ UploadSucceeds \/ UploadFails

SpecPanel == InitPanel /\ [][NextPanel]_vars

---------------------------------------------------------------------------
(* C21..C30 *)

\* the entry, as it is serialised, has the fields of a success entry
SuccessShape(e) ==
    /\ e.predictions # Undefined
    /\ e.consensus # Undefined
    /\ e.error = Undefined

\* the entry, as it is serialised, has the fields of an error entry
ErrorShape(e) ==
    /\ e.error # Undefined
    /\ e.predictions = Undefined
    /\ e.consensus = Undefined

\* C21: every entry of results is a success entry (row, predictions,
\* consensus and no error) or an error entry (row, error message, features
\* and no predictions): one of the two, never both and never neither.
C21_EntryIsSuccessOrError ==
    \A k \in 1..Len(results) :
        /\ SuccessShape(results[k]) \/ ErrorShape(results[k])
        /\ ~(SuccessShape(results[k]) /\ ErrorShape(results[k]))
        /\ ErrorShape(results[k]) => results[k].kind = "error"

\* C22: a batch request without a file, or with a dataset other than
\* breast, gastric and lung, never has a row parsed from its upload, a row
\* handled, a batch begun or a call made to the prediction service; its
\* only effect is the 400.
C22_RejectedHasNoEffect ==
    ~Accepted =>
        /\ rows = <<>>
        /\ emitted = 0
        /\ currentBatch = <<>>
        /\ results = <<>>
        /\ calls = <<>>
        /\ pc = "done" => response.status = 400

\* a request with a file of several rows and an unknown dataset, answered
C22_Witness ==
    /\ pc = "done"
    /\ response.status = 400
    /\ req.file.present
    /\ Len(req.file.rows) > 1
    /\ req.dataset = "colon"

CallSettled == proxy.pc = "done" /\ Len(proxy.http) = 1

\* what http throws for a response that is not ok
NotOkMessage(reply) ==
    IF reply.text # "" THEN reply.text
    ELSE IF reply.status = 400 THEN "Request failed: 400"
    ELSE "Request failed: 500"

\* C24: for a response of the prediction service that is ok, http returns
\* its parsed JSON body; for one that is not ok it returns nothing and
\* throws an Error whose message is the body text or, when the body is
\* empty, Request failed: <status>.
C24_HttpReturnsOrThrows ==
    (CallSettled /\ proxy.reply.arrived) =>
        /\ proxy.reply.ok =>
              /\ ~proxy.returned.threw
              /\ proxy.returned.value = <<"parsed", proxy.reply.text>>
        /\ ~proxy.reply.ok =>
              /\ proxy.returned.threw
              /\ proxy.returned.value = <<>>
              /\ proxy.returned.error.isError
              /\ proxy.returned.error.message = NotOkMessage(proxy.reply)

\* C24, amended: as C24 for an ok response whose body is JSON; for an ok
\* response whose body is not JSON, http returns nothing and throws the
\* error of the parser.
C24_HttpReturnsOrThrowsJsonBody ==
    (CallSettled /\ proxy.reply.arrived) =>
        /\ (proxy.reply.ok /\ proxy.reply.json) =>
              /\ ~proxy.returned.threw
              /\ proxy.returned.value = <<"parsed", proxy.reply.text>>
        /\ (proxy.reply.ok /\ ~proxy.reply.json) =>
              /\ proxy.returned.threw
              /\ proxy.returned.value = <<>>
              /\ proxy.returned.error.isError
        /\ ~proxy.reply.ok =>
              /\ proxy.returned.threw
              /\ proxy.returned.value = <<>>
              /\ proxy.returned.error.isError
              /\ proxy.returned.error.message = NotOkMessage(proxy.reply)

\* a call answered with status 500 and an empty body
C24_Witness ==
    /\ CallSettled
    /\ proxy.reply.arrived
    /\ ~proxy.reply.ok
    /\ proxy.reply.text = ""
    /\ proxy.reply.status = 500
    /\ proxy.returned.error.message = "Request failed: 500"

\* C25: in src/server - Copy/routes.ts a request with a file and a valid
\* dataset is answered 400 No valid data found in CSV exactly when no entry
\* was produced for any row, and otherwise 200 with the dataset and all the
\* entries produced.
C25_EmptyResultIs400 ==
    (variant = "copy" /\ pc = "done" /\ Accepted) =>
        /\ (response = [status |-> 400, message |-> "No valid data found in CSV"])
              <=> (results = <<>>)
        /\ results # <<>> =>
              response = [status |-> 200, dataset |-> req.dataset, results |-> results]

\* the analyze-csv request has been answered
Analyzed == proxy.route = "analyze" /\ proxy.pc = "done"

\* number of lines of the upload that are not blank
TextLineCount ==
    Cardinality({ i \in 1..Len(proxy.input.lines) : proxy.input.lines[i] = "text" })

\* C26: POST /api/analyze-csv answers 400 when there is no file or when the
\* content has fewer than 2 non-blank lines, and only then; otherwise it
\* answers 200 with rows = non-blank lines - 1 and column_count = number of
\* comma-separated fields of the header line.
C26_AnalyzeCountsLines ==
    Analyzed =>
        /\ proxy.response.status \in {200, 400}
        /\ (proxy.response.status = 400) <=> (~proxy.input.present \/ TextLineCount < 2)
        /\ proxy.response.status = 200 =>
              /\ proxy.response.rows = TextLineCount - 1
              /\ proxy.response.column_count = Len(proxy.input.header)

\* an upload with two byte-order marks and a blank line among three lines
C26_Witness ==
    /\ Analyzed
    /\ proxy.input.bom = 2
    /\ proxy.input.lines = <<"text", "blank", "text">>
    /\ proxy.response.status = 200
    /\ proxy.response.rows = 1

\* the header of the upload has a field named as a target column
HeaderHasTarget ==
    \E j \in 1..Len(proxy.input.header) :
        proxy.input.header[j].name
            \in {"classes", "Sample_Characteristics", "target", "label", "diagnosis"}

\* C27: with featureCount = header fields, less one when a target column is
\* among them, suggested_datasets is [breast] for featureCount <= 10,
\* [gastric, lung] for featureCount > 100 and [breast, gastric, lung]
\* otherwise: never empty, and of these three names only.
C27_SuggestedDatasets ==
    (Analyzed /\ proxy.response.status = 200) =>
        LET featureCount == Len(proxy.input.header) - (IF HeaderHasTarget THEN 1 ELSE 0)
            suggested == proxy.response.suggested_datasets
        IN  /\ featureCount <= 10 => suggested = <<"breast">>
            /\ featureCount > 100 => suggested = <<"gastric", "lung">>
            /\ (featureCount > 10 /\ featureCount <= 100) =>
                  suggested = <<"breast", "gastric", "lung">>
            /\ Len(suggested) > 0
            /\ \A k \in 1..Len(suggested) : suggested[k] \in {"breast", "gastric", "lung"}

\* a header of eleven fields, one of them a target column: ten features
C27_Witness ==
    /\ Analyzed
    /\ proxy.response.status = 200
    /\ Len(proxy.input.header) = 11
    /\ HeaderHasTarget
    /\ proxy.response.suggested_datasets = <<"breast">>

\* the candidate names in the order of the claim
TargetOrder == <<"classes", "Sample_Characteristics", "target", "label", "diagnosis">>

\* candidate c is the name of a field of the header
InHeader(c) == \E j \in 1..Len(proxy.input.header) : proxy.input.header[j].name = c

\* C28: target_column is the first of classes, Sample_Characteristics,
\* target, label, diagnosis, in this order, that is among the header names;
\* it is absent when none is; has_target is true exactly when it is present;
\* these five names are the ones the batch endpoint leaves out of the
\* feature map.
C28_TargetColumn ==
    /\ (Analyzed /\ proxy.response.status = 200) =>
          /\ proxy.response.has_target <=> (proxy.response.target_column # Undefined)
          /\ proxy.response.has_target <=> (\E c \in 1..Len(TargetOrder) : InHeader(TargetOrder[c]))
          /\ \A c \in 1..Len(TargetOrder) :
                (InHeader(TargetOrder[c]) /\ \A b \in 1..(c - 1) : ~InHeader(TargetOrder[b]))
                    => proxy.response.target_column = TargetOrder[c]
    /\ \A n \in {"f1", "id", "Label"} \cup { TargetOrder[c] : c \in 1..Len(TargetOrder) } :
          IsTargetColumn([bom |-> 0, name |-> n])
              <=> (\E c \in 1..Len(TargetOrder) : TargetOrder[c] = n)

\* a header with label before classes: classes is the target column
C28_Witness ==
    /\ Analyzed
    /\ proxy.response.status = 200
    /\ proxy.input.header[1].name = "label"
    /\ proxy.input.header[2].name = "classes"
    /\ proxy.response.target_column = "classes"

\* C29: the dataset of every answer of GET /api/survival-analysis is
\* breast, gastric or lung, whatever the dataset of the query.
C29_SurvivalDatasetInEnum ==
    (proxy.route = "survival" /\ proxy.pc = "done") =>
        proxy.response.dataset \in {"breast", "gastric", "lung"}

\* the uploads of the panel that have not settled
PendingUploads == { i \in 1..Len(panel.uploads) : panel.uploads[i].status = "pending" }

\* C30: the panel has at most one upload in flight; once the upload of the
\* file chosen last has succeeded no file is shown as selected, and once it
\* has failed that file is still shown.
C30_OneUploadInFlight ==
    /\ Cardinality(PendingUploads) <= 1
    /\ Len(panel.uploads) > 0 =>
          LET last == panel.uploads[Len(panel.uploads)]
          IN  /\ last.status = "ok" => panel.csvFile = NoFileSelected
              /\ last.status = "failed" => panel.csvFile = last.file

====
